---- MODULE Spec2Model ----
(***************************************************************************)
(* playwright-vrt: the CLI orchestrator (main), the cache validity oracle  *)
(* (computeConfigHash / isCacheValid / saveCacheHashes), the two-phase run  *)
(* coordinator (runVisualTests / runPlaywright) and the result aggregator  *)
(* (parseResults).  One behaviour is a sequence of CLI invocations against *)
(* the same working directory.                                             *)
(***************************************************************************)
EXTENDS Integers, Sequences, FiniteSets, TLC

\* ------------------------------------------------------------------ bounds
\* number of spec entries a suite of results.json may hold
MaxSpecs == 1

\* ------------------------------------------------------------- small helpers
Range(s) == {s[i] : i \in DOMAIN s}

RECURSIVE SeqsUpTo(_, _)
SeqsUpTo(S, n) ==
  IF n = 0 THEN {<<>>}
  ELSE LET shorter == SeqsUpTo(S, n - 1)
       IN  shorter \cup {Append(s, x) : s \in shorter, x \in S}

\* ------------------------------------------------------------------- hosts
Prod == "https://prod"
Stage == "https://stage"

\* new URL(u) succeeds
IsURL(u) == u \in {Prod, Stage}

\* --------------------------------------------------------- configuration
\* maxDiffPixelRatio is kept in units of 1/10000 (0.01 = 100, 1 = 10000)
RatioOne == 10000

DefaultKeys ==
  <<"sitemapPath", "maxUrls", "exclude", "include", "crawlOptions", "viewports", "threshold">>

DEFAULT_CONFIG ==
  [ sitemapPath  |-> "/sitemap.xml",
    maxUrls      |-> 25,
    exclude      |-> <<>>,
    include      |-> <<"*">>,
    crawlOptions |-> [maxDepth |-> 1, removeTrailingSlash |-> TRUE],
    viewports    |-> << [name |-> "desktop", width |-> 1920, height |-> 1080] >>,
    threshold    |-> [maxDiffPixels |-> 100, maxDiffPixelRatio |-> 100] ]

\* The config files on disk: the keys in the order the file lists them, and
\* the parsed object.  "missing" is a path with no file behind it.
ConfigFiles ==
  [ full  |-> [keys |-> <<"referenceUrl", "testUrl">>,
               obj  |-> [referenceUrl |-> Prod, testUrl |-> Stage]],
    excl  |-> [keys |-> <<"referenceUrl", "testUrl", "exclude">>,
               obj  |-> [referenceUrl |-> Prod, testUrl |-> Stage,
                         exclude |-> <<"/admin/**">>]],
    swap  |-> [keys |-> <<"testUrl", "referenceUrl">>,
               obj  |-> [referenceUrl |-> Prod, testUrl |-> Stage]],
    vp    |-> [keys |-> <<"testUrl", "referenceUrl", "viewports">>,
               obj  |-> [referenceUrl |-> Prod, testUrl |-> Stage,
                         viewports |-> << [name |-> "desktop", width |-> 1280, height |-> 720] >>]],
    bad   |-> [keys |-> <<"testUrl", "viewports">>,
               obj  |-> [testUrl |-> Stage, viewports |-> <<>>]] ]

\* a string new URL() rejects
BadUrl == "not-a-url"

\* Further config files: viewports with a missing, zero or negative dimension
\* or no name, thresholds in and out of range, single nested fields, a URL
\* cap, two viewports, a file without test URL and one whose test URL does
\* not parse.
MoreConfigFiles ==
  [ nowidth   |-> [keys |-> <<"testUrl", "referenceUrl", "viewports">>,
                   obj  |-> [referenceUrl |-> Prod, testUrl |-> Stage,
                             viewports |-> << [name |-> "desktop", height |-> 720] >>]],
    noheight  |-> [keys |-> <<"testUrl", "referenceUrl", "viewports">>,
                   obj  |-> [referenceUrl |-> Prod, testUrl |-> Stage,
                             viewports |-> << [name |-> "desktop", width |-> 1280] >>]],
    zerowidth |-> [keys |-> <<"testUrl", "referenceUrl", "viewports">>,
                   obj  |-> [referenceUrl |-> Prod, testUrl |-> Stage,
                             viewports |-> << [name |-> "desktop", width |-> 0, height |-> 720] >>]],
    negheight |-> [keys |-> <<"testUrl", "referenceUrl", "viewports">>,
                   obj  |-> [referenceUrl |-> Prod, testUrl |-> Stage,
                             viewports |-> << [name |-> "desktop", width |-> 1280, height |-> -1] >>]],
    noname    |-> [keys |-> <<"testUrl", "referenceUrl", "viewports">>,
                   obj  |-> [referenceUrl |-> Prod, testUrl |-> Stage,
                             viewports |-> << [name |-> "", width |-> 1280, height |-> 720] >>]],
    ratiohigh |-> [keys |-> <<"testUrl", "referenceUrl", "threshold">>,
                   obj  |-> [referenceUrl |-> Prod, testUrl |-> Stage,
                             threshold |-> [maxDiffPixelRatio |-> RatioOne + 1]]],
    rationeg  |-> [keys |-> <<"testUrl", "referenceUrl", "threshold">>,
                   obj  |-> [referenceUrl |-> Prod, testUrl |-> Stage,
                             threshold |-> [maxDiffPixelRatio |-> -1]]],
    ratioone  |-> [keys |-> <<"testUrl", "referenceUrl", "threshold">>,
                   obj  |-> [referenceUrl |-> Prod, testUrl |-> Stage,
                             threshold |-> [maxDiffPixelRatio |-> RatioOne]]],
    pixels    |-> [keys |-> <<"testUrl", "referenceUrl", "threshold">>,
                   obj  |-> [referenceUrl |-> Prod, testUrl |-> Stage,
                             threshold |-> [maxDiffPixels |-> 50]]],
    depth     |-> [keys |-> <<"testUrl", "referenceUrl", "crawlOptions">>,
                   obj  |-> [referenceUrl |-> Prod, testUrl |-> Stage,
                             crawlOptions |-> [maxDepth |-> 2]]],
    cap       |-> [keys |-> <<"testUrl", "referenceUrl", "maxUrls">>,
                   obj  |-> [referenceUrl |-> Prod, testUrl |-> Stage, maxUrls |-> 10]],
    notest    |-> [keys |-> <<"referenceUrl">>,
                   obj  |-> [referenceUrl |-> Prod]],
    two       |-> [keys |-> <<"testUrl", "referenceUrl", "viewports">>,
                   obj  |-> [referenceUrl |-> Prod, testUrl |-> Stage,
                             viewports |-> << [name |-> "desktop", width |-> 1280, height |-> 720],
                                              [name |-> "mobile", width |-> 375, height |-> 667] >>]],
    badtest   |-> [keys |-> <<"testUrl", "referenceUrl">>,
                   obj  |-> [referenceUrl |-> Prod, testUrl |-> BadUrl]] ]

AllConfigFiles == ConfigFiles @@ MoreConfigFiles

MissingFile == "missing"

ConfigPaths == DOMAIN ConfigFiles \cup {MissingFile}

\* a nested object of the file, or the empty object when the file has none
FileObject(file, k) == IF k \in DOMAIN file THEN file[k] ELSE <<>>

AppendKey(keys, k) == IF k \in Range(keys) THEN keys ELSE Append(keys, k)

RECURSIVE AppendKeys(_, _)
AppendKeys(keys, more) ==
  IF more = <<>> THEN keys
  ELSE AppendKeys(AppendKey(keys, Head(more)), Tail(more))

\* loadConfig: {...DEFAULT_CONFIG, ...config, crawlOptions: {...}, viewports, threshold: {...}}
\* An absent referenceUrl / testUrl is the empty (falsy) string.
loadConfig(path) ==
  IF path = MissingFile
  THEN [threw |-> TRUE, obj |-> DEFAULT_CONFIG @@ [referenceUrl |-> "", testUrl |-> ""],
        keys |-> DefaultKeys]
  ELSE LET file == AllConfigFiles[path].obj
           merged == [ crawlOptions |-> FileObject(file, "crawlOptions") @@ DEFAULT_CONFIG.crawlOptions,
                       viewports    |-> IF "viewports" \in DOMAIN file
                                        THEN file.viewports ELSE DEFAULT_CONFIG.viewports,
                       threshold    |-> FileObject(file, "threshold") @@ DEFAULT_CONFIG.threshold ]
                     @@ file @@ DEFAULT_CONFIG
       IN  [threw |-> FALSE,
            obj   |-> merged @@ [referenceUrl |-> "", testUrl |-> ""],
            keys  |-> AppendKeys(DefaultKeys, AllConfigFiles[path].keys)]

\* vp.width <= 0, vp.height <= 0: a missing property reads as undefined, and
\* undefined <= 0 is false
NonPositive(vp, k) == k \in DOMAIN vp /\ vp[k] <= 0

\* validateConfig: TRUE when it returns, FALSE when it throws
validateConfig(c) ==
  /\ c.testUrl # ""
  /\ c.referenceUrl # ""
  /\ IsURL(c.referenceUrl) /\ IsURL(c.testUrl)
  /\ Len(c.viewports) # 0
  /\ \A i \in DOMAIN c.viewports :
        ~ ( c.viewports[i].name = "" \/ NonPositive(c.viewports[i], "width")
            \/ NonPositive(c.viewports[i], "height") )
  /\ ~ ( c.threshold.maxDiffPixelRatio # 0
         /\ (c.threshold.maxDiffPixelRatio < 0 \/ c.threshold.maxDiffPixelRatio > RatioOne) )

\* ------------------------------------------------------------ fingerprints
\* Object.keys(config).sort(): position of each key in code-unit order
KeyRank ==
  [ crawlOptions |-> 1, exclude |-> 2, include |-> 3, maxUrls |-> 4, referenceUrl |-> 5,
    sitemapPath |-> 6, testUrl |-> 7, threshold |-> 8, viewports |-> 9 ]

RECURSIVE SortKeys(_)
SortKeys(keySet) ==
  IF keySet = {} THEN <<>>
  ELSE LET least == CHOOSE k \in keySet : \A o \in keySet : KeyRank[k] <= KeyRank[o]
       IN  <<least>> \o SortKeys(keySet \ {least})

\* JSON.stringify with an array replacer keeps, in every object at every
\* nesting level, only the properties the array names
KeepAllowed(obj, allow) == [k \in (DOMAIN obj \cap Range(allow)) |-> obj[k]]

StringifyValue(k, v, allow) ==
  IF k \in {"crawlOptions", "threshold"} THEN KeepAllowed(v, allow)
  ELSE IF k = "viewports" THEN [i \in DOMAIN v |-> KeepAllowed(v[i], allow)]
  ELSE v

\* JSON.stringify(config, allow): the properties in the order of allow
Stringify(c, allow) ==
  [i \in DOMAIN allow |-> <<allow[i], StringifyValue(allow[i], c[allow[i]], allow)>>]

\* createHash('sha256')...digest('hex'): collision-free on the modelled inputs
Sha256(content) == <<"sha256", content>>

\* a fingerprint of the properties in insertion order
computeConfigHash_Unsorted(c, keys) == Sha256(Stringify(c, keys))

computeConfigHash(c, keys) == Sha256(Stringify(c, SortKeys(Range(keys))))

\* the packaged files: js is tests/vrt.spec.js, the file testMatch selects and
\* the engine runs; ts is tests/vrt.spec.ts, the file the cache check hashes,
\* which may be missing
NoFile == "absent"

computeFileHash(content) == Sha256(content)

TestFileHash(p) == IF p.ts # NoFile THEN computeFileHash(p.ts) ELSE <<"">>

\* ------------------------------------------------------ persisted artifacts
Undefined == <<"undefined">>

\* playwright-snapshots/.cache-hash.json.  cfg is the configuration the
\* hashes were computed from, keys its key order and spec the content of
\* tests/vrt.spec.js at that time (none is part of the file; kept for the
\* properties).
AbsentManifest ==
  [state |-> "absent", config |-> Undefined, testFile |-> Undefined, cfg |-> DEFAULT_CONFIG,
   keys |-> DefaultKeys, spec |-> NoFile]

\* playwright-snapshots/urls.json
AbsentUrls == [state |-> "absent", urls |-> <<>>]

\* <outputDir>/results.json: suites[].specs[].ok.  Both engine runs rewrite or
\* remove it, and it is read only after phase 2, so it is kept per invocation.
AbsentResults == [state |-> "absent", suites |-> <<>>]

ResultFiles ==
  {AbsentResults, [state |-> "malformed", suites |-> <<>>]}
    \cup {[state |-> "ok", suites |-> <<specs>>] : specs \in SeqsUpTo(BOOLEAN, MaxSpecs)}

\* ----------------------------------------------------- cache validity oracle
\* the body of the try block of isCacheValid: threw when any step throws
CacheCompare(m, c, keys, p) ==
  IF m.state \in {"unreadable", "garbage"}
  THEN [threw |-> TRUE, value |-> FALSE]                 \* readFileSync / JSON.parse
  ELSE IF m.state = "null"
  THEN [threw |-> TRUE, value |-> FALSE]                 \* stored.timestamp of null
  ELSE [threw |-> FALSE,
        value |-> /\ m.config = computeConfigHash(c, keys)
                  /\ m.testFile = TestFileHash(p)]

\* isCacheValid without its try/catch
isCacheValid_NoCatch(m, c, keys, p) ==
  IF m.state = "absent"
  THEN [raised |-> FALSE, value |-> FALSE]
  ELSE LET body == CacheCompare(m, c, keys, p)
       IN  [raised |-> body.threw, value |-> body.value]

isCacheValid(m, c, keys, p) ==
  IF m.state = "absent"
  THEN [raised |-> FALSE, value |-> FALSE]
  ELSE LET body == CacheCompare(m, c, keys, p)
       IN  IF body.threw THEN [raised |-> FALSE, value |-> FALSE]     \* catch
           ELSE [raised |-> FALSE, value |-> body.value]

saveCacheHashes(c, keys, p) ==
  [state |-> "ok", config |-> computeConfigHash(c, keys), testFile |-> TestFileHash(p),
   cfg |-> c, keys |-> keys, spec |-> p.js]

\* ---------------------------------------------------------- policy of main
\* regeneration decided by the cache alone
ShouldRegenerate_CacheOnly(updateBaseline, valid) == ~valid

\* main, line 138
ShouldRegenerate(updateBaseline, valid) == updateBaseline \/ ~valid

\* a gate that does not look at --update-baseline
GateRefuses_NoForce(explicit, valid, updateBaseline) == ~explicit /\ ~valid

\* main, line 140
GateRefuses(explicit, valid, updateBaseline) == ~explicit /\ ~valid /\ ~updateBaseline

\* a main that never reuses urls.json
UsesCachedUrls_Never(file, regenerate) == FALSE

\* main, line 149
UsesCachedUrls(file, regenerate) == file.state # "absent" /\ ~regenerate

\* an exit status that treats the engine's exit code as an error
ExitStatus_EngineCode(res) ==
  IF res.exitCode # 0 THEN 2 ELSE IF res.failed > 0 THEN 1 ELSE 0

\* main, line 215
ExitStatus(res) == IF res.failed > 0 THEN 1 ELSE 0

\* ------------------------------------------------------------ URL discovery
HostOf(base) == IF base = Prod THEN "prod" ELSE "stage"

Url(h, p) == [host |-> h, path |-> p]

\* a <loc> that is not an absolute URL: new URL(loc) throws
NotAbsolute == Url("", "relative")

\* what the sitemap of a reference host may list
SiteLists(h) ==
  { <<>>, <<Url(h, "/")>>, <<Url(h, "/"), Url(h, "/admin/x")>>, <<Url("other", "/z")>>,
    <<Url(h, "/"), Url(h, "/admin/x"), Url(h, "/")>>, <<Url(h, "/"), NotAbsolute>> }

SitemapOutcomes(h) ==
  {[ok |-> FALSE, sites |-> <<>>]} \cup {[ok |-> TRUE, sites |-> s] : s \in SiteLists(h)}

CrawlOutcomes(h) ==
  { [launched |-> FALSE, loaded |-> FALSE, links |-> <<>>],
    [launched |-> TRUE,  loaded |-> FALSE, links |-> <<>>],
    [launched |-> TRUE,  loaded |-> TRUE,  links |-> <<Url(h, "/admin/x"), Url("other", "/z")>>] }

\* micromatch.isMatch(path, patterns, {bash: true}) on the modelled patterns
GlobMatches(path, pat) ==
  \/ pat \in {"*", "**"}
  \/ pat \in {"/admin/**", "**/admin/**"} /\ path \in {"/admin/x"}

IsMatch(path, patterns) == \E i \in DOMAIN patterns : GlobMatches(path, patterns[i])

\* a sitemap reader that returns an empty list instead of throwing
collectFromSitemap_EmptyOk(sm) ==
  IF ~sm.ok THEN [threw |-> TRUE, urls |-> <<>>]
  ELSE [threw |-> FALSE, urls |-> sm.sites]

\* collectFromSitemap: throws on a fetch failure and on an empty list
collectFromSitemap(sm) ==
  IF ~sm.ok \/ Len(sm.sites) = 0 THEN [threw |-> TRUE, urls |-> <<>>]
  ELSE [threw |-> FALSE, urls |-> sm.sites]

RECURSIVE Dedupe_KeepLast(_)
\* a deduplication that keeps the last occurrence of each element
Dedupe_KeepLast(s) ==
  IF s = <<>> THEN <<>>
  ELSE LET rest == Dedupe_KeepLast(Tail(s))
       IN  IF Head(s) \in Range(rest) THEN rest ELSE <<Head(s)>> \o rest

RECURSIVE Dedupe(_)
\* Array.from(new Set(urls)): first occurrences, in order
Dedupe(s) ==
  IF s = <<>> THEN <<>>
  ELSE LET init == Dedupe(SubSeq(s, 1, Len(s) - 1))
           last == s[Len(s)]
       IN  IF last \in Range(init) THEN init ELSE Append(init, last)

\* crawlWebsite: chromium.launch is outside the try block
crawlWebsite(baseUrl, cr) ==
  IF ~cr.launched THEN [threw |-> TRUE, urls |-> <<>>]
  ELSE IF ~cr.loaded THEN [threw |-> FALSE, urls |-> <<Url(HostOf(baseUrl), "/")>>]
  ELSE [threw |-> FALSE,
        urls  |-> Dedupe(<<Url(HostOf(baseUrl), "/")>>
                         \o SelectSeq(cr.links, LAMBDA u : u.host = HostOf(baseUrl)))]

\* a filter in which a matching include pattern wins
KeepURL_IncludeFirst(u, baseUrl, include, exclude) ==
  IF u.host # HostOf(baseUrl) THEN FALSE
  ELSE IF Len(include) > 0 /\ IsMatch(u.path, include) THEN TRUE
  ELSE IF Len(exclude) > 0 /\ IsMatch(u.path, exclude) THEN FALSE
  ELSE Len(include) = 0

KeepURL(u, baseUrl, include, exclude) ==
  IF u.host # HostOf(baseUrl) THEN FALSE
  ELSE IF Len(exclude) > 0 /\ IsMatch(u.path, exclude) THEN FALSE
  ELSE IF Len(include) > 0 THEN IsMatch(u.path, include)
  ELSE TRUE

filterURLs(urls, baseUrl, include, exclude) ==
  SelectSeq(urls, LAMBDA u : KeepURL(u, baseUrl, include, exclude))

\* filterURLs, line 140: new URL(url) throws on the first string that is no URL
FilterThrows(urls) == \E i \in DOMAIN urls : urls[i] = NotAbsolute

\* Array.prototype.slice(0, n)
Slice(s, n) ==
  LET end == IF n >= 0 THEN (IF n < Len(s) THEN n ELSE Len(s))
             ELSE (IF Len(s) + n > 0 THEN Len(s) + n ELSE 0)
  IN  SubSeq(s, 1, end)

collectURLs(c, sm, cr) ==
  LET first  == collectFromSitemap(sm)
      second == crawlWebsite(c.referenceUrl, cr)
      raw    == IF first.threw THEN second.urls ELSE first.urls
      passed == filterURLs(raw, c.referenceUrl, c.include, c.exclude)
      kept   == Dedupe(passed)
      maxUrls == IF c.maxUrls # 0 THEN c.maxUrls ELSE 25
      raised == (first.threw /\ second.threw) \/ FilterThrows(raw)
  IN  [ raised   |-> raised,
        urls     |-> IF raised THEN <<>> ELSE Slice(kept, maxUrls),
        source   |-> IF first.threw THEN "crawl" ELSE "sitemap",
        total    |-> Len(raw),
        filtered |-> IF raised THEN 0 ELSE Len(kept),
        \* the locals urls (line 29), urls (line 32) and urls (line 35), the
        \* strategies called and what they met, kept for the properties
        raw      |-> raw,
        passed   |-> IF raised THEN <<>> ELSE passed,
        deduped  |-> IF raised THEN <<>> ELSE kept,
        attempts |-> IF first.threw THEN <<"sitemap", "crawl">> ELSE <<"sitemap">>,
        sm       |-> sm,
        cr       |-> cr ]

\* ------------------------------------------------------ result aggregation
RECURSIVE CountOk(_)
CountOk(specs) ==
  IF specs = <<>> THEN 0
  ELSE (IF Head(specs) THEN 1 ELSE 0) + CountOk(Tail(specs))

RECURSIVE AllSpecs(_)
\* the specs of all suites, in the order the two loops visit them
AllSpecs(suites) ==
  IF suites = <<>> THEN <<>> ELSE Head(suites) \o AllSpecs(Tail(suites))

parseResults(file) ==
  IF file.state # "ok"
  THEN [passed |-> 0, failed |-> 0, total |-> 0, exitCode |-> 1]        \* catch
  ELSE LET specs  == AllSpecs(file.suites)
           passed == CountOk(specs)
       IN  [passed |-> passed, failed |-> Len(specs) - passed, total |-> Len(specs),
            exitCode |-> 0]

\* ------------------------------------------------------------ the coordinator
hasExistingSnapshots(images) == images # {}

\* runVisualTests, line 68
HasBaseline(updateBaseline, images) == ~updateBaseline /\ hasExistingSnapshots(images)

ViewportNames(c) == {c.viewports[i].name : i \in DOMAIN c.viewports}

\* the projects one engine run covers (--project or all)
SelectedProjects(c, project) ==
  IF project # "" THEN {project} \cap ViewportNames(c) ELSE ViewportNames(c)

\* phase 2 run on all projects
runPlaywright_AllProjects(baseURL, c, project, updateSnapshots, file) ==
  [ updateSnapshots |-> updateSnapshots, baseURL |-> baseURL, vrtConfig |-> c,
    project |-> IF updateSnapshots THEN project ELSE "", urls |-> file ]

\* the engine process one runPlaywright call spawns: its arguments, its
\* environment, and the urls.json its test file reads when it starts
runPlaywright(baseURL, c, project, updateSnapshots, file) ==
  [ updateSnapshots |-> updateSnapshots, baseURL |-> baseURL, vrtConfig |-> c,
    project |-> project, urls |-> file ]

\* phase 2 spawned without awaiting phase 1
PhaseTwoReady_NoAwait(p, hasBaseline) ==
  p \in {"phase1", "compare"} \/ (p = "baseline" /\ hasBaseline)

\* runVisualTests, lines 70-101: phase 2 is spawned after the baseline was found
\* or after `await runPlaywright` of phase 1 has resolved
PhaseTwoReady(p, hasBaseline) ==
  p = "compare" \/ (p = "baseline" /\ hasBaseline)

\* ---------------------------------------------------------------- the state
VARIABLES
  manifest,              \* playwright-snapshots/.cache-hash.json
  urlsFile,              \* playwright-snapshots/urls.json
  pngs,                  \* projects that have baseline images in playwright-snapshots/
  pkg,                   \* the packaged test files
  pc,                    \* where main is: idle, gate, urls, baseline, phase1, compare,
                         \* phase2, parse, done
  args,                  \* the CLI options main still reads
  config,                \* the effective configuration
  configKeys,            \* its top-level keys in insertion order
  hasExplicitReference,
  cacheValid,
  urls,
  engineExit,            \* exit code runPlaywright resolved with in phase 2
  resultsFile,           \* <outputDir>/results.json as phase 2's engine process left it
  results,
  exitCode,              \* process exit status, -1 while running
  obs                    \* what this invocation has done so far

vars == <<manifest, urlsFile, pngs, pkg, pc, args, config, configKeys,
          hasExplicitReference, cacheValid, urls, engineExit, resultsFile, results, exitCode, obs>>

disk == <<manifest, urlsFile, pngs, pkg>>

EmptyConfig == DEFAULT_CONFIG @@ [referenceUrl |-> "", testUrl |-> ""]

NoResults == [passed |-> 0, failed |-> 0, total |-> 0, exitCode |-> 0]

\* no call of collectURLs recorded
NoFound ==
  [ raised |-> FALSE, urls |-> <<>>, source |-> "", total |-> 0, filtered |-> 0,
    raw |-> <<>>, passed |-> <<>>, deduped |-> <<>>, attempts |-> <<>>,
    sm |-> [ok |-> FALSE, sites |-> <<>>],
    cr |-> [launched |-> FALSE, loaded |-> FALSE, links |-> <<>>] ]

\* no phase 1 process has closed
NoStatus == [engine |-> -1, resolved |-> -1]

\* no command line recorded; maxUrlsGiven says whether --max-urls was present
NoCli ==
  [ config |-> "", test |-> "", reference |-> "", maxUrls |-> 0, maxUrlsGiven |-> FALSE,
    project |-> "", updateBaseline |-> FALSE ]

NoObs ==
  [ mode |-> "run", discovery |-> FALSE, phase1 |-> FALSE, phase2 |-> FALSE,
    wroteManifest |-> FALSE, parsed |-> FALSE, gate |-> "", error |-> "",
    discoveryTarget |-> "", target1 |-> "", target2 |-> "",
    coordinator |-> FALSE, engine |-> <<>>, trace |-> <<>>, scenario |-> "",
    found |-> NoFound, validated |-> FALSE, cli |-> NoCli, candidate |-> EmptyConfig,
    argv |-> <<>>, removed |-> {}, afterClean |-> FALSE, status1 |-> NoStatus,
    captured |-> {} ]

\* the options of one `run` invocation: without a config file, with one (every
\* file names the test URL --test could give), and with --project
ArgSets ==
  [ config : {""}, test : {"", Stage}, reference : {"", Stage},
    maxUrls : {0}, project : {""}, updateBaseline : BOOLEAN ]
    \cup
  [ config : ConfigPaths, test : {""}, reference : {"", Stage},
    maxUrls : {0}, project : {""}, updateBaseline : BOOLEAN ]
    \cup
  [ config : {"full"}, test : {""}, reference : {""},
    maxUrls : {0}, project : {"desktop"}, updateBaseline : BOOLEAN ]

Packages == { [ts |-> NoFile, js |-> "spec-1"], [ts |-> "spec-1", js |-> "spec-1"] }

FreshLocals ==
  /\ args = [updateBaseline |-> FALSE, project |-> ""]
  /\ config = EmptyConfig
  /\ configKeys = DefaultKeys
  /\ hasExplicitReference = TRUE
  /\ cacheValid = FALSE
  /\ urls = <<>>
  /\ engineExit = 0
  /\ resultsFile = AbsentResults
  /\ results = NoResults
  /\ exitCode = -1
  /\ obs = NoObs

\* an empty working directory
Init ==
  /\ manifest = AbsentManifest
  /\ urlsFile = AbsentUrls
  /\ pngs = {}
  /\ pkg \in Packages
  /\ pc = "idle"
  /\ FreshLocals

\* README, Cache Behavior: the invocation that has just ended was a first run
\* with an explicit reference and no manifest, it went through discovery,
\* baseline capture and comparison, and baseline images exist
CompletedFirstRun ==
  /\ pc = "done" /\ obs.scenario = "C"
  /\ obs.discovery /\ obs.wroteManifest /\ obs.phase1 /\ obs.parsed
  /\ pngs # {}

\* an empty URL list and the manifest of configuration c are on disk
EmptySetPersisted(c) ==
  /\ urlsFile = [state |-> "ok", urls |-> <<>>]
  /\ manifest.state = "ok" /\ manifest.cfg = c

\* "C" for a first run with an explicit reference, "D" for the run that repeats
\* a completed first run with the same options and no force, "E" for a run
\* without force that finds an empty URL list persisted for its configuration
Scenario(c, explicit, a) ==
  IF CompletedFirstRun /\ explicit /\ c = config /\ a.project = args.project
     /\ ~a.updateBaseline
  THEN "D"
  ELSE IF explicit /\ manifest.state = "absent" THEN "C"
  ELSE IF EmptySetPersisted(c) /\ ~a.updateBaseline THEN "E"
  ELSE ""

\* process.exit(code) with the locals as they are
Exit(code, err) ==
  /\ pc' = "done"
  /\ exitCode' = code
  /\ obs' = [obs EXCEPT !.error = err]

\* process.exit(code) before main has built anything
ExitEarlyWith(code, mode, err, o) ==
  /\ pc' = "done"
  /\ exitCode' = code
  /\ obs' = [o EXCEPT !.mode = mode, !.error = err]
  /\ args' = [updateBaseline |-> FALSE, project |-> ""]
  /\ config' = EmptyConfig
  /\ configKeys' = DefaultKeys
  /\ hasExplicitReference' = TRUE
  /\ cacheValid' = FALSE
  /\ urls' = <<>>
  /\ engineExit' = 0
  /\ resultsFile' = AbsentResults
  /\ results' = NoResults

ExitEarly(code, mode, err) == ExitEarlyWith(code, mode, err, NoObs)

\* parseArgs, case '--clean'
Clean ==
  /\ pc \in {"idle", "done"}
  /\ manifest' = AbsentManifest
  /\ urlsFile' = AbsentUrls
  /\ pngs' = {}
  /\ UNCHANGED pkg
  /\ ExitEarly(0, "clean", "")

\* parseArgs, case '--help'
Help ==
  /\ pc \in {"idle", "done"}
  /\ UNCHANGED disk
  /\ ExitEarly(0, "help", "")

\* a main that goes from validation straight to the URL step
AfterValidation_SkipGate == "urls"

\* main, lines 113-147: after validateConfig come the cache check and the gate
AfterValidation == "gate"

\* main up to and including validateConfig; with log the command line and the
\* configuration handed to validateConfig are recorded
Begin(a, log) ==
  /\ pc \in {"idle", "done"}
  /\ UNCHANGED disk
  /\ IF a.config = "" /\ a.test = ""
     THEN ExitEarly(2, "run", "usage")
     ELSE LET loaded == IF a.config # "" THEN loadConfig(a.config)
                        ELSE [threw |-> FALSE, obj |-> EmptyConfig, keys |-> DefaultKeys]
              c1 == IF a.test # "" THEN [loaded.obj EXCEPT !.testUrl = a.test] ELSE loaded.obj
              k1 == IF a.test # "" THEN AppendKey(loaded.keys, "testUrl") ELSE loaded.keys
              c2 == IF a.reference # "" THEN [c1 EXCEPT !.referenceUrl = a.reference] ELSE c1
              k2 == IF a.reference # "" THEN AppendKey(k1, "referenceUrl") ELSE k1
              implicit == c2.referenceUrl = "" /\ c2.testUrl # ""
              c3 == IF implicit THEN [c2 EXCEPT !.referenceUrl = c2.testUrl] ELSE c2
              k3 == IF implicit THEN AppendKey(k2, "referenceUrl") ELSE k2
              c4 == IF a.maxUrls # 0 THEN [c3 EXCEPT !.maxUrls = a.maxUrls] ELSE c3
              base == [NoObs EXCEPT !.afterClean = (obs.mode = "clean"),
                                    !.captured = obs.captured]
              seen == IF log THEN [base EXCEPT !.validated = TRUE, !.cli = a, !.candidate = c4]
                      ELSE base
          IN  IF loaded.threw THEN ExitEarly(2, "run", "config-not-found")
              ELSE IF ~validateConfig(c4) THEN ExitEarlyWith(2, "run", "config", seen)
              ELSE /\ pc' = AfterValidation
                   /\ args' = [updateBaseline |-> a.updateBaseline, project |-> a.project]
                   /\ config' = c4
                   /\ configKeys' = k3
                   /\ hasExplicitReference' = ~implicit
                   /\ cacheValid' = FALSE
                   /\ urls' = <<>>
                   /\ engineExit' = 0
                   /\ resultsFile' = AbsentResults
                   /\ results' = NoResults
                   /\ exitCode' = -1
                   /\ obs' = [seen EXCEPT !.scenario = Scenario(c4, ~implicit, a)]

Start(a) == Begin(a, FALSE)

\* main, lines 137-147: the cache check and the baseline policy gate
Gate ==
  /\ pc = "gate"
  /\ LET valid == isCacheValid(manifest, config, configKeys, pkg)
     IN  /\ cacheValid' = valid.value
         /\ IF valid.raised THEN Exit(2, "cache-read")
            ELSE IF GateRefuses(hasExplicitReference, valid.value, args.updateBaseline)
            THEN /\ pc' = "done"
                 /\ exitCode' = 2
                 /\ obs' = [obs EXCEPT !.gate = "refused", !.error = "baseline-ambiguity",
                                       !.trace = Append(@, "cache-check")]
            ELSE /\ pc' = "urls"
                 /\ obs' = [obs EXCEPT !.gate = "passed", !.trace = Append(@, "cache-check")]
                 /\ UNCHANGED exitCode
  /\ UNCHANGED <<disk, args, config, configKeys, hasExplicitReference, urls, engineExit,
                 resultsFile, results>>

\* a main that hands any URL list to the coordinator
AfterUrls_NoCheck(list, o) ==
  /\ pc' = "baseline" /\ obs' = [o EXCEPT !.coordinator = TRUE] /\ UNCHANGED exitCode

\* main, lines 183-185, after the URL list is known
AfterUrls(list, o) ==
  IF Len(list) = 0
  THEN /\ pc' = "done" /\ exitCode' = 2 /\ obs' = [o EXCEPT !.error = "no-urls"]
  ELSE /\ pc' = "baseline" /\ obs' = [o EXCEPT !.coordinator = TRUE] /\ UNCHANGED exitCode

\* main, lines 149-157: the persisted URL list is reused
LoadCachedUrls ==
  /\ pc = "urls"
  /\ UsesCachedUrls(urlsFile, ShouldRegenerate(args.updateBaseline, cacheValid))
  /\ IF urlsFile.state # "ok"
     THEN /\ Exit(2, "urls-parse")
          /\ UNCHANGED urls
     ELSE /\ urls' = urlsFile.urls
          /\ AfterUrls(urlsFile.urls, obs)
  /\ UNCHANGED <<disk, args, config, configKeys, hasExplicitReference, cacheValid,
                 engineExit, resultsFile, results>>

\* main, lines 158-181: discovery, then urls.json and the manifest are written.
\* With log, what collectURLs returned is kept for the properties.
Discovery(log) ==
  /\ pc = "urls"
  /\ ~UsesCachedUrls(urlsFile, ShouldRegenerate(args.updateBaseline, cacheValid))
  /\ \E sm \in SitemapOutcomes(HostOf(config.referenceUrl)),
        cr \in CrawlOutcomes(HostOf(config.referenceUrl)) :
       LET found == collectURLs(config, sm, cr)
           o == [obs EXCEPT !.discovery = TRUE, !.discoveryTarget = config.referenceUrl,
                            !.trace = Append(@, "discovery"),
                            !.found = IF log THEN found ELSE NoFound]
           fresh == [o EXCEPT !.wroteManifest = TRUE, !.captured = {}]
       IN  IF found.raised
           THEN /\ pc' = "done" /\ exitCode' = 2
                /\ obs' = [o EXCEPT !.error = "discovery"]
                /\ UNCHANGED <<urls, urlsFile, manifest>>
           ELSE /\ urls' = found.urls
                /\ urlsFile' = [state |-> "ok", urls |-> found.urls]
                /\ manifest' = saveCacheHashes(config, configKeys, pkg)
                /\ AfterUrls(found.urls, fresh)
  /\ UNCHANGED <<pngs, pkg, args, config, configKeys, hasExplicitReference,
                 cacheValid, engineExit, resultsFile, results>>

Discover == Discovery(FALSE)

\* runVisualTests, lines 75-93: phase 1 is spawned, the engine in update mode
\* against the reference target; a spawn error rejects
CaptureBaseline ==
  /\ pc = "baseline"
  /\ ~HasBaseline(ShouldRegenerate(args.updateBaseline, cacheValid), pngs)
  /\ \E launched \in BOOLEAN :
       IF ~launched
       THEN /\ pc' = "done" /\ exitCode' = 2
            /\ obs' = [obs EXCEPT !.error = "engine-launch"]
       ELSE /\ pc' = "phase1"
            /\ obs' = [obs EXCEPT
                         !.engine = Append(@, runPlaywright(config.referenceUrl, config,
                                                            args.project, TRUE, urlsFile)),
                         !.trace = Append(@, "update")]
            /\ UNCHANGED exitCode
  /\ UNCHANGED <<disk, args, config, configKeys, hasExplicitReference,
                 cacheValid, urls, engineExit, resultsFile, results>>

\* the exit codes of the engine process
EngineCodes == {0, 1}

\* a close handler that resolves with the exit code in either mode
CloseStatus_Raw(updateSnapshots, code) == code

\* runPlaywright, lines 171-181: the value the promise resolves with on 'close'
CloseStatus(updateSnapshots, code) == IF updateSnapshots THEN 0 ELSE code

\* runPlaywright, lines 171-180: the phase 1 process closes.  Whatever its exit
\* code, runPlaywright resolves 0, and runVisualTests drops the value.  With
\* log the exit code, the resolved value and the projects whose images this
\* phase wrote since the manifest was last written are recorded.
BaselineClose(log) ==
  /\ pc = "phase1"
  /\ pc' = "compare"
  /\ \E written \in {{}, SelectedProjects(config, args.project)}, code \in EngineCodes :
       /\ pngs' = pngs \cup written
       /\ obs' = [obs EXCEPT !.phase1 = TRUE, !.target1 = config.referenceUrl,
                             !.trace = Append(@, "update-closed"),
                             !.status1 = IF log THEN [engine |-> code,
                                                      resolved |-> CloseStatus(TRUE, code)]
                                         ELSE NoStatus,
                             !.captured = IF log THEN @ \cup written ELSE @]
  /\ UNCHANGED <<manifest, urlsFile, pkg, args, config, configKeys, hasExplicitReference,
                 cacheValid, urls, engineExit, resultsFile, results, exitCode>>

BaselineClosed == BaselineClose(FALSE)

\* runVisualTests, lines 98-110: phase 2 is spawned, the engine in compare mode
\* against the test target
Compare ==
  /\ PhaseTwoReady(pc, HasBaseline(ShouldRegenerate(args.updateBaseline, cacheValid), pngs))
  /\ \E launched \in BOOLEAN :
       IF ~launched
       THEN /\ pc' = "done" /\ exitCode' = 2
            /\ obs' = [obs EXCEPT !.error = "engine-launch"]
       ELSE /\ pc' = "phase2"
            /\ obs' = [obs EXCEPT
                         !.engine = Append(@, runPlaywright(config.testUrl, config,
                                                            args.project, FALSE, urlsFile)),
                         !.trace = Append(@, "compare")]
            /\ UNCHANGED exitCode
  /\ UNCHANGED <<disk, args, config, configKeys, hasExplicitReference,
                 cacheValid, urls, engineExit, resultsFile, results>>

\* runPlaywright, lines 171-180: the phase 2 process closes and runPlaywright
\* resolves with the engine's exit code
CompareClosed ==
  /\ pc = "phase2"
  /\ \E code \in EngineCodes : engineExit' = CloseStatus(FALSE, code)
  /\ resultsFile' \in ResultFiles
  \* a missing baseline image is written by the engine
  /\ \E written \in {{}, SelectedProjects(config, args.project)} :
       pngs' = pngs \cup written
  /\ pc' = "parse"
  /\ obs' = [obs EXCEPT !.phase2 = TRUE, !.target2 = config.testUrl,
                        !.trace = Append(@, "compare-closed")]
  /\ UNCHANGED <<manifest, urlsFile, pkg, args, config, configKeys, hasExplicitReference,
                 cacheValid, urls, results, exitCode>>

\* runVisualTests, lines 112-116, and main, line 215
Aggregate ==
  /\ pc = "parse"
  /\ LET parsed == [parseResults(resultsFile) EXCEPT !.exitCode = engineExit]
     IN  /\ results' = parsed
         /\ exitCode' = ExitStatus(parsed)
  /\ pc' = "done"
  /\ obs' = [obs EXCEPT !.parsed = TRUE]
  /\ UNCHANGED <<disk, args, config, configKeys, hasExplicitReference, cacheValid, urls,
                 engineExit, resultsFile>>

Next ==
  \/ Clean
  \/ Help
  \/ \E a \in ArgSets : Start(a)
  \/ Gate
  \/ LoadCachedUrls
  \/ Discover
  \/ CaptureBaseline
  \/ BaselineClosed
  \/ Compare
  \/ CompareClosed
  \/ Aggregate

Spec == Init /\ [][Next]_vars

TypeOK ==
  /\ pc \in {"idle", "gate", "urls", "baseline", "phase1", "compare", "phase2", "parse",
            "done"}
  /\ exitCode \in {-1, 0, 1, 2}
  /\ pngs \subseteq {"desktop", "mobile"}

\* ------------------------------------------- an arbitrary snapshot directory
\* playwright-snapshots/ as a CI cache restore or a manual edit may leave it:
\* any manifest (missing, unreadable, not JSON, null, foreign hashes), any URL
\* file, any images.
RecordedConfigs ==
  {[c |-> loadConfig(f).obj, k |-> loadConfig(f).keys] : f \in {"full", "excl"}}

RecordedPackages == Packages \cup {[ts |-> "spec-0", js |-> "spec-0"]}

ManifestShapes ==
  {[AbsentManifest EXCEPT !.state = st] : st \in {"absent", "unreadable", "garbage", "null"}}
    \cup {[AbsentManifest EXCEPT !.state = "ok"]}
    \cup {saveCacheHashes(r.c, r.k, p) : r \in RecordedConfigs, p \in RecordedPackages}

UrlsShapes ==
  { AbsentUrls, [state |-> "corrupt", urls |-> <<>>],
    [state |-> "ok", urls |-> <<>>], [state |-> "ok", urls |-> <<Url("prod", "/")>>] }

InitFs ==
  /\ manifest \in ManifestShapes
  /\ urlsFile \in UrlsShapes
  /\ pngs \in SUBSET {"desktop"}
  /\ pkg \in Packages
  /\ pc = "idle"
  /\ FreshLocals

SpecFs == InitFs /\ [][Next]_vars

\* ----------------------------------------------------- a package upgrade
\* The package as the repository has it: tests/ holds vrt.spec.js only.
\* Between two invocations it is replaced by a version with another
\* comparison spec.
Shipped == [ts |-> NoFile, js |-> "spec-1"]

Upgrade ==
  /\ pc \in {"idle", "done"}
  /\ pkg = Shipped
  /\ pkg' = [Shipped EXCEPT !.js = "spec-2"]
  /\ UNCHANGED <<manifest, urlsFile, pngs, pc, args, config, configKeys,
                 hasExplicitReference, cacheValid, urls, engineExit, resultsFile, results,
                 exitCode, obs>>

NextUpgrade == Next \/ Upgrade

InitUpgrade == Init /\ pkg = Shipped

SpecUpgrade == InitUpgrade /\ [][NextUpgrade]_vars

\* ----------------------------------------------------------- URL discovery
\* main at the URL step of a first run with an explicit reference, for config
\* files that set maxUrls, include and exclude; validateConfig accepts them all
MaxUrlsValues == {-1, 0, 1, 2, 25}

IncludeLists == { <<>>, <<"*">>, <<"**">>, <<"/admin/**">> }

ExcludeLists == { <<>>, <<"/admin/**">>, <<"**/admin/**">> }

UrlConfigs ==
  { [loadConfig("full").obj EXCEPT !.maxUrls = m, !.include = i, !.exclude = e] :
      m \in MaxUrlsValues, i \in IncludeLists, e \in ExcludeLists }

InitUrls ==
  /\ manifest = AbsentManifest
  /\ urlsFile = AbsentUrls
  /\ pngs = {}
  /\ pkg = Shipped
  /\ pc = "urls"
  /\ args = [updateBaseline |-> FALSE, project |-> ""]
  /\ config \in UrlConfigs
  /\ validateConfig(config)
  /\ configKeys = loadConfig("full").keys
  /\ hasExplicitReference = TRUE
  /\ cacheValid = FALSE
  /\ urls = <<>>
  /\ engineExit = 0
  /\ resultsFile = AbsentResults
  /\ results = NoResults
  /\ exitCode = -1
  /\ obs = [NoObs EXCEPT !.gate = "passed", !.trace = <<"cache-check">>, !.scenario = "C"]

Collect == Discovery(TRUE)

NextUrls == Collect

SpecUrls == InitUrls /\ [][NextUrls]_vars

\* ------------------------------------------------------------------ claims
Forced == args.updateBaseline

\* C1: once the gate has been evaluated for a validated configuration, the
\* invocation was refused (and ended with exit status 2) exactly when there is
\* no explicit reference, the cache is invalid and no force was given; in the
\* seven other combinations it went on past the gate.
C1_GateTruthTable ==
  obs.gate # "" =>
    /\ (obs.gate = "refused") <=> (~hasExplicitReference /\ ~cacheValid /\ ~Forced)
    /\ obs.gate = "refused" => pc = "done" /\ exitCode = 2
    /\ obs.gate = "passed" => pc # "gate" /\ obs.error # "baseline-ambiguity"

\* an implicit reference passes the gate on a valid cache
C1_Witness ==
  /\ obs.gate = "passed" /\ pc = "urls"
  /\ ~hasExplicitReference /\ cacheValid /\ ~Forced

\* C2: baseline capture never runs in an invocation that has neither an
\* explicit reference nor --update-baseline.
C2_NoImplicitBaseline ==
  obs.phase1 => hasExplicitReference \/ Forced

\* C3: with a valid cache and no force, neither discovery nor baseline
\* capture is executed.
C3_ValidCacheNoReference ==
  (obs.gate = "passed" /\ cacheValid /\ ~Forced) => ~obs.discovery /\ ~obs.phase1

\* C4: a cache is judged valid only for the effective configuration its
\* manifest was written for: configurations that differ in any field have
\* different fingerprints.
C4_FingerprintSeparates ==
  (obs.gate = "passed" /\ cacheValid /\ ~obs.wroteManifest) => manifest.cfg = config

\* C5: the manifest is written only once baseline capture has completed, and
\* an invocation that aborts during regeneration leaves no manifest that is
\* valid for its configuration.
C5_ManifestAfterRegeneration ==
  /\ obs.wroteManifest => obs.phase1
  /\ (pc = "done" /\ exitCode = 2 /\ obs.discovery)
        => ~isCacheValid(manifest, config, configKeys, pkg).value

\* C6: in an invocation that runs to its end, discovery was executed if and
\* only if baseline capture was.
C6_InvalidateTogether ==
  (pc = "done" /\ obs.parsed) => (obs.discovery <=> obs.phase1)

\* C7: with --update-baseline the gate is passed, the cached URL list is
\* never used: discovery runs against the reference target and rewrites the
\* URL list and the manifest, and phase 1 runs against the reference target
\* before any comparison; the only way out without both is an error exit
\* (discovery raised, no URL found, engine not launched).  With an implicit
\* reference both phases target the test URL.
C7_ForceRegenerates ==
  (Forced /\ obs.gate # "") =>
    /\ obs.gate = "passed"
    /\ pc \notin {"gate", "urls"} =>
          /\ obs.discovery /\ obs.discoveryTarget = config.referenceUrl
          /\ obs.error # "discovery" =>
                obs.wroteManifest /\ urlsFile = [state |-> "ok", urls |-> urls]
    /\ (pc \in {"compare", "phase2", "parse"} \/ obs.phase2) =>
          obs.phase1 /\ obs.target1 = config.referenceUrl
    /\ (pc = "done" /\ ~obs.phase1) =>
          exitCode = 2 /\ obs.error \in {"discovery", "no-urls", "engine-launch"}
    /\ obs.phase2 => obs.target2 = config.testUrl
    /\ ~hasExplicitReference => config.referenceUrl = config.testUrl

\* a forced run with an implicit reference on a valid cache that has images
C7_Witness ==
  /\ pc = "done" /\ exitCode = 0 /\ Forced /\ ~hasExplicitReference /\ cacheValid
  /\ obs.discovery /\ obs.phase1 /\ obs.phase2
  /\ obs.target1 = Stage /\ obs.target2 = Stage

\* some spec of results.json is not ok
ReportsDifference(file) ==
  file.state = "ok" /\ \E i \in DOMAIN file.suites : \E j \in DOMAIN file.suites[i] :
                          ~file.suites[i][j]

C9_MissingResultsIsError ==
  (pc = "done" /\ obs.parsed /\ resultsFile.state # "ok") =>
    /\ results.passed = 0 /\ results.failed = 0 /\ results.total = 0
    /\ results.exitCode # 0
    /\ exitCode # 0

\* C10: the cache check never raises, and it answers true exactly when the
\* manifest is a readable JSON object whose two fingerprints equal the
\* current ones.
C10_CacheValidity ==
  [][ (pc = "gate" /\ pc' # "gate") =>
        /\ obs'.error # "cache-read"
        /\ cacheValid' <=> /\ manifest.state = "ok"
                           /\ manifest.config = computeConfigHash(config, configKeys)
                           /\ manifest.testFile = TestFileHash(pkg) ]_vars

\* the cache check has answered false on a manifest it could not read or parse
C10_Witness ==
  /\ obs.gate # "" /\ ~cacheValid
  /\ manifest.state \in {"unreadable", "garbage", "null"}

\* C11: two effective configurations with the same fields and values have the
\* same fingerprint whatever the order of their fields: the fingerprint the
\* manifest recorded for a configuration equals the fingerprint of every
\* later configuration equal to it.
C11_KeyOrderIndependent ==
  (manifest.state = "ok" /\ manifest.cfg = config) =>
     manifest.config = computeConfigHash(config, configKeys)

\* the cache was found valid for a configuration whose fields are listed in
\* another order than in the invocation that wrote the manifest
C11_Witness ==
  /\ obs.gate = "passed" /\ cacheValid /\ ~obs.wroteManifest
  /\ manifest.cfg = config /\ manifest.keys # configKeys
  /\ Range(manifest.keys) = Range(configKeys)

\* the steps of one invocation in the order main and runVisualTests take them
StepRank ==
  [ x \in {"cache-check"} |-> 1 ] @@ [ x \in {"discovery"} |-> 2 ] @@
  [ x \in {"update"} |-> 3 ] @@ [ x \in {"update-closed"} |-> 4 ] @@
  [ x \in {"compare"} |-> 5 ] @@ [ x \in {"compare-closed"} |-> 6 ]

\* C12: the steps of an invocation happen in the order cache check, discovery,
\* phase 1, phase 2, each at most once; phase 2 is spawned only after the
\* phase 1 process, if there was one, has closed; and an invocation that has
\* reached the coordinator and ended without a spawn error has run phase 2
\* exactly once, to its end.
C12_PhaseOrder ==
  LET t == obs.trace
  IN  /\ \A i, j \in DOMAIN t : i < j => StepRank[t[i]] < StepRank[t[j]]
      /\ ("update" \in Range(t) /\ "compare" \in Range(t)) => "update-closed" \in Range(t)
      /\ (obs.coordinator /\ pc = "done" /\ obs.error # "engine-launch") =>
            /\ Cardinality({i \in DOMAIN t : t[i] = "compare"}) = 1
            /\ t[Len(t)] = "compare-closed"
      /\ (Range(t) \cap {"update", "compare"} # {}) => obs.coordinator /\ t[1] = "cache-check"
      /\ pc \in {"phase1", "phase2"} <=>
            (t # <<>> /\ t[Len(t)] \in {"update", "compare"} /\ pc # "done")

\* an invocation has gone through discovery, phase 1 and phase 2
C12_Witness ==
  /\ pc = "done" /\ obs.coordinator /\ obs.error = ""
  /\ obs.trace = <<"cache-check", "discovery", "update", "update-closed", "compare",
                   "compare-closed">>

\* C13: every phase 1 process gets the reference target and --update-snapshots,
\* every phase 2 process the test target and no --update-snapshots; the two
\* processes of one invocation get the same configuration, the same --project
\* and read the same urls.json, which no step between them rewrites.
C13_SameInputs ==
  LET g == obs.engine
  IN  /\ \A i \in DOMAIN g :
            /\ g[i].baseURL = IF g[i].updateSnapshots THEN config.referenceUrl
                                                      ELSE config.testUrl
            /\ g[i].vrtConfig = config /\ g[i].project = args.project
            /\ g[i].updateSnapshots <=> (i = 1 /\ "update" \in Range(obs.trace))
      /\ Len(g) = 2 =>
            /\ g[1].vrtConfig = g[2].vrtConfig /\ g[1].project = g[2].project
            /\ g[1].urls = g[2].urls
      /\ (g # <<>> /\ pc \in {"phase1", "compare", "phase2"}) => urlsFile = g[1].urls

\* both phases have run for one project, against two different targets
C13_Witness ==
  /\ pc = "done" /\ Len(obs.engine) = 2 /\ args.project = "desktop"
  /\ obs.engine[1].baseURL = Prod /\ obs.engine[2].baseURL = Stage
  /\ obs.engine[1].urls.state = "ok" /\ Len(obs.engine[1].urls.urls) > 0

\* C14: the run that repeats a completed first run (explicit reference, no
\* prior manifest, URLs discovered, baseline images captured, manifest written)
\* with the same options and no force finds the cache valid, passes the gate,
\* runs neither discovery nor phase 1, runs the comparison against the test
\* target, and never writes urls.json or the manifest.
C14_RerunUsesCache ==
  /\ [](obs.scenario = "D" =>
          /\ obs.gate # "" => cacheValid /\ obs.gate = "passed"
          /\ ~obs.discovery /\ ~obs.wroteManifest
          /\ ~obs.phase1 /\ "update" \notin Range(obs.trace)
          /\ pc \in {"baseline", "phase2", "parse", "done"} =>
                urlsFile = [state |-> "ok", urls |-> urls]
          /\ obs.phase2 => obs.target2 = config.testUrl
          /\ pc = "done" => \/ obs.phase2 /\ obs.parsed /\ obs.error = ""
                            \/ obs.error = "engine-launch")
  /\ [][obs'.scenario = "D" => manifest' = manifest /\ urlsFile' = urlsFile]_vars

\* the repeated run has ended after its comparison
C14_Witness ==
  /\ obs.scenario = "D" /\ pc = "done" /\ obs.parsed
  /\ obs.trace = <<"cache-check", "compare", "compare-closed">>
  /\ config.referenceUrl = Prod /\ obs.target2 = Stage

\* C15: an invocation without an explicit reference and without force is not
\* refused at the gate when baseline images exist that an earlier invocation
\* with the same test URL has left, together with its manifest.
C15_BaselineSuffices ==
  ( /\ obs.gate # "" /\ ~hasExplicitReference /\ ~Forced
    /\ pngs # {} /\ manifest.state = "ok" /\ manifest.cfg.testUrl = config.testUrl )
  => obs.gate = "passed"

\* the errors main raises before it has passed the gate
GateErrors == {"usage", "config-not-found", "config", "baseline-ambiguity"}

\* C16: discovery and engine processes come only after the cache check and a
\* passed gate; an invocation that ends with a usage or configuration error,
\* a missing config file or the gate's refusal has run no discovery and
\* spawned no engine process, and none of its steps has changed urls.json, the
\* manifest or the baseline images.
C16_GateBeforeActivity ==
  /\ []( /\ (obs.discovery \/ obs.engine # <<>>
              \/ Range(obs.trace) \cap {"discovery", "update", "compare"} # {})
               => obs.gate = "passed" /\ obs.trace[1] = "cache-check"
         /\ (pc = "done" /\ obs.error \in GateErrors) =>
               /\ ~obs.discovery /\ obs.engine = <<>> /\ ~obs.phase1 /\ ~obs.phase2
               /\ Range(obs.trace) \subseteq {"cache-check"}
               /\ exitCode = 2 )
  /\ [][ (pc' = "gate" \/ (pc' = "done" /\ obs'.error \in GateErrors)) =>
            manifest' = manifest /\ urlsFile' = urlsFile /\ pngs' = pngs ]_vars

\* a refusal in a directory that holds a URL list, a manifest and images
C16_Witness ==
  /\ pc = "done" /\ obs.error = "baseline-ambiguity" /\ obs.gate = "refused"
  /\ manifest.state = "ok" /\ urlsFile.state = "ok" /\ pngs # {}

\* C17: an invocation finds the cache valid only if the manifest was written
\* while the package held the comparison spec the engine runs now.
C17_SpecChangeInvalidates ==
  (pc \notin {"idle", "done"} /\ obs.gate = "passed" /\ cacheValid /\ ~obs.wroteManifest)
    => manifest.spec = pkg.js

\* C18: no invocation ends because collectURLs raised, whatever the sitemap
\* fetch and the crawl did and whatever strings they returned.
C18_DiscoveryNeverRaises ==
  obs.discovery => obs.error # "discovery"

\* C19: the URL list written to urls.json has no repeated element and is not
\* longer than the configured maxUrls.
C19_AtMostMaxUrls ==
  urlsFile.state = "ok" =>
    /\ Len(urlsFile.urls) <= config.maxUrls
    /\ \A i, j \in DOMAIN urlsFile.urls : i # j => urlsFile.urls[i] # urlsFile.urls[j]

\* the collected URLs the filter let through, as a set
Passed == Range(obs.found.passed)

\* C20, as stated: a collected URL passes the filter exactly when its host is
\* the reference host, its path matches no exclude glob and its path matches
\* at least one include glob.
C20_FilterAsStated ==
  (obs.discovery /\ ~obs.found.raised) =>
    \A i \in DOMAIN obs.found.raw :
      LET u == obs.found.raw[i]
      IN  u \in Passed <=> /\ u.host = HostOf(config.referenceUrl)
                           /\ ~IsMatch(u.path, config.exclude)
                           /\ IsMatch(u.path, config.include)

\* C20, amended: a collected URL passes the filter exactly when its host is
\* the reference host, its path matches no exclude glob, and the include list
\* is empty or its path matches at least one include glob; the filter keeps
\* the order and adds nothing.
C20_FilterAmended ==
  (obs.discovery /\ ~obs.found.raised) =>
    /\ \A i \in DOMAIN obs.found.raw :
          LET u == obs.found.raw[i]
          IN  u \in Passed <=> /\ u.host = HostOf(config.referenceUrl)
                               /\ ~IsMatch(u.path, config.exclude)
                               /\ Len(config.include) = 0 \/ IsMatch(u.path, config.include)
    /\ Passed \subseteq Range(obs.found.raw)

\* a URL that matches an include and an exclude glob has been rejected, and
\* another one of the same list kept
C20_Witness ==
  /\ obs.discovery /\ ~obs.found.raised
  /\ config.include = <<"**">> /\ config.exclude = <<"**/admin/**">>
  /\ Url("prod", "/admin/x") \in Range(obs.found.raw) \ Passed
  /\ Url("prod", "/") \in Passed

\* the first n elements of s, all of s when it has no more than n
FirstN(s, n) == IF Len(s) > n THEN (IF n > 0 THEN SubSeq(s, 1, n) ELSE <<>>) ELSE s

\* C21: the list collectURLs returns is the first maxUrls elements of the
\* filtered, deduplicated list, in their order, and that list itself when it
\* has at most maxUrls elements.
C21_Truncation ==
  (obs.discovery /\ ~obs.found.raised) =>
     obs.found.urls = FirstN(obs.found.deduped, config.maxUrls)

\* the position of the first occurrence of x in s
FirstIndex(s, x) == CHOOSE i \in DOMAIN s : s[i] = x /\ \A j \in 1..(i - 1) : s[j] # x

\* C22: the deduplicated list has no repeated element, has exactly the
\* elements of the filtered list, and lists them in the order of their first
\* occurrences.
C22_Deduplication ==
  (obs.discovery /\ ~obs.found.raised) =>
     LET in  == obs.found.passed
         out == obs.found.deduped
     IN  /\ \A i, j \in DOMAIN out : i # j => out[i] # out[j]
         /\ Range(out) = Range(in)
         /\ \A i, j \in DOMAIN out :
               i < j => FirstIndex(in, out[i]) < FirstIndex(in, out[j])

\* a list with a repeated element has been deduplicated
C22_Witness ==
  /\ obs.discovery /\ ~obs.found.raised
  /\ obs.found.passed = <<Url("prod", "/"), Url("prod", "/admin/x"), Url("prod", "/")>>
  /\ obs.found.deduped = <<Url("prod", "/"), Url("prod", "/admin/x")>>


\* ------------------------------------------------- configuration handling
\* Command lines of `run` over every config file, with and without --test,
\* --reference and --max-urls (0 and 5 given, or absent)
ConfigArgSets ==
  { a \in [ config : DOMAIN AllConfigFiles \cup {"", MissingFile},
            test : {"", Stage, BadUrl}, reference : {"", Stage, BadUrl},
            maxUrls : {0, 5}, maxUrlsGiven : BOOLEAN,
            project : {""}, updateBaseline : {FALSE} ] :
      ~a.maxUrlsGiven => a.maxUrls = 0 }

InitConfig == Init /\ pkg = Shipped

\* one invocation up to the verdict of validateConfig
Validate == \E a \in ConfigArgSets : Begin(a, TRUE)

NextConfig == Validate

SpecConfig == InitConfig /\ [][NextConfig]_vars

\* a viewport dimension that is absent or not positive
MissingOrNonPositive(vp, k) == k \notin DOMAIN vp \/ vp[k] <= 0

\* the defects a configuration can have
Defective(c) ==
  \/ c.testUrl = ""
  \/ ~IsURL(c.testUrl) \/ ~IsURL(c.referenceUrl)
  \/ Len(c.viewports) = 0
  \/ \E i \in DOMAIN c.viewports :
        MissingOrNonPositive(c.viewports[i], "width")
        \/ MissingOrNonPositive(c.viewports[i], "height")
  \/ c.threshold.maxDiffPixelRatio < 0 \/ c.threshold.maxDiffPixelRatio > RatioOne

\* C23: validation fails, and the invocation exits with status 2, exactly when
\* the test target is missing, a target does not parse as a URL, the viewport
\* list is empty, a viewport has a non-positive or missing width or height, or
\* the diff ratio threshold lies outside [0, 1]; every other configuration passes.
C23_ValidationDefects ==
  obs.validated =>
     ((obs.error = "config" /\ exitCode = 2) <=> Defective(obs.candidate))

\* the object parsed from the config file of a command line, empty without one
FileOf(a) == IF a.config = "" THEN <<>> ELSE AllConfigFiles[a.config].obj

\* a top-level field as the file sets it, else its default
Setting(a, k) == IF k \in DOMAIN FileOf(a) THEN FileOf(a)[k] ELSE DEFAULT_CONFIG[k]

\* a field of crawlOptions or threshold as the file sets it, else its default
NestedSetting(a, k, f) ==
  IF k \in DOMAIN FileOf(a) /\ f \in DOMAIN FileOf(a)[k]
  THEN FileOf(a)[k][f] ELSE DEFAULT_CONFIG[k][f]

\* C24: the effective configuration is defaults < file < command line: a field
\* set by --test, --reference or --max-urls has the value given there, any
\* other field set in the file has the file's value, the rest their defaults,
\* and crawlOptions and threshold are merged field by field.
C24_MergePrecedence ==
  obs.validated =>
     LET a == obs.cli
         c == obs.candidate
     IN  /\ a.test # "" => c.testUrl = a.test
         /\ (a.test = "" /\ "testUrl" \in DOMAIN FileOf(a)) => c.testUrl = FileOf(a).testUrl
         /\ a.reference # "" => c.referenceUrl = a.reference
         /\ (a.reference = "" /\ "referenceUrl" \in DOMAIN FileOf(a))
               => c.referenceUrl = FileOf(a).referenceUrl
         /\ a.maxUrlsGiven => c.maxUrls = a.maxUrls
         /\ ~a.maxUrlsGiven => c.maxUrls = Setting(a, "maxUrls")
         /\ \A k \in {"sitemapPath", "exclude", "include", "viewports"} : c[k] = Setting(a, k)
         /\ \A k \in {"crawlOptions", "threshold"} :
               \A f \in DOMAIN DEFAULT_CONFIG[k] : c[k][f] = NestedSetting(a, k, f)


\* ------------------------------------------------------ --clean among flags
\* the options parseArgs reads together with the following word
ValueFlags == {"--reference", "--test", "--config", "--output", "--max-urls", "--project"}

\* parseArgs: the loop over process.argv from position i; "clean" and "help"
\* are the two cases that end the process inside the loop
RECURSIVE parseArgs(_, _)
parseArgs(argv, i) ==
  IF i > Len(argv) THEN "run"
  ELSE IF argv[i] \in ValueFlags THEN parseArgs(argv, i + 2)
  ELSE IF argv[i] = "--clean" THEN "clean"
  ELSE IF argv[i] \in {"--help", "-h"} THEN "help"
  ELSE parseArgs(argv, i + 1)

\* command lines on which --clean stands as a flag, alone and among others
CleanLines ==
  { <<"--clean">>,
    <<"--update-baseline", "--clean">>,
    <<"--clean", "--update-baseline">>,
    <<"--test", Stage, "--clean">>,
    <<"--clean", "--test", Stage>>,
    <<"--config", "full", "--reference", Stage, "--clean">>,
    <<"--max-urls", "5", "--project", "desktop", "--clean">>,
    <<"--verbose", "--headed", "--clean">>,
    <<"--clean", "--help">>,
    <<"--help", "--clean">>,
    <<"-h", "--clean">> }

\* a clean that removes the manifest and leaves the rest of the directory
RemoveDirs_ManifestOnly ==
  [manifest |-> AbsentManifest, urlsFile |-> urlsFile, pngs |-> pngs]

\* parseArgs, lines 271-277: rmSync of playwright-snapshots, playwright-report
\* and playwright-tmp
RemoveDirs ==
  [manifest |-> AbsentManifest, urlsFile |-> AbsentUrls, pngs |-> {}]

\* the artifacts that exist in the snapshot directory
Present ==
  {k \in {"manifest"} : manifest # AbsentManifest}
    \cup {k \in {"urls"} : urlsFile # AbsentUrls}
    \cup {k \in {"images"} : pngs # {}}

\* one invocation with a command line of CleanLines
CommandLine ==
  /\ pc \in {"idle", "done"}
  /\ \E argv \in CleanLines :
        IF parseArgs(argv, 1) = "clean"
        THEN /\ manifest' = RemoveDirs.manifest
             /\ urlsFile' = RemoveDirs.urlsFile
             /\ pngs' = RemoveDirs.pngs
             /\ UNCHANGED pkg
             /\ ExitEarlyWith(0, "clean", "", [NoObs EXCEPT !.argv = argv, !.removed = Present])
        ELSE /\ UNCHANGED disk
             /\ ExitEarlyWith(0, "help", "", [NoObs EXCEPT !.argv = argv])

NextClean == Next \/ CommandLine

SpecClean == InitUpgrade /\ [][NextClean]_vars

\* the directories of the persisted artifacts are gone and the process has
\* ended with status 0 before discovery and before any engine run
Wiped ==
  /\ manifest = AbsentManifest /\ urlsFile = AbsentUrls /\ pngs = {}
  /\ resultsFile = AbsentResults
  /\ pc = "done" /\ exitCode = 0
  /\ ~obs.discovery /\ obs.engine = <<>> /\ ~obs.phase1 /\ ~obs.phase2

\* the invocation after a clean, once past its cache check: the cache was seen
\* invalid, and the gate refused it exactly when it had neither an explicit
\* reference nor --update-baseline
RefusedUnlessExplicitOrForced ==
  (obs.afterClean /\ obs.gate # "") =>
     /\ ~cacheValid
     /\ obs.gate = "refused" <=> (~hasExplicitReference /\ ~args.updateBaseline)
     /\ obs.gate = "refused" => (pc = "done" /\ exitCode = 2 /\ ~obs.discovery)

BaselineArgSets ==
  [ config : {"", "full"}, test : {Stage}, reference : {"", Stage},
    maxUrls : {0}, project : {""}, updateBaseline : BOOLEAN ]

BaselineObserved == BaselineClose(TRUE)

NextBaseline ==
  \/ Clean
  \/ \E a \in BaselineArgSets : Start(a)
  \/ Gate
  \/ LoadCachedUrls
  \/ Discover
  \/ CaptureBaseline
  \/ BaselineObserved
  \/ Compare
  \/ CompareClosed
  \/ Aggregate

SpecBaseline == InitUpgrade /\ [][NextBaseline]_vars

\* C26: baseline capture always reports success.  Whatever exit code the
\* engine returns in update mode, phase 1 resolves 0 and the coordinator goes
\* on to the comparison; the run result and the process exit status are those
\* of phase 2 alone; a run that has spawned phase 1 ends without a result
\* only when an engine process could not be launched.
C26_BaselineAlwaysSucceeds ==
  /\ obs.phase1 => obs.status1.resolved = 0
  /\ (obs.phase1 /\ pc = "done")
        => ("compare" \in Range(obs.trace) \/ obs.error = "engine-launch")
  /\ (obs.phase1 /\ obs.parsed)
        => /\ results = [parseResults(resultsFile) EXCEPT !.exitCode = engineExit]
           /\ exitCode = ExitStatus(results)
  /\ ("update" \in Range(obs.trace) /\ pc = "done" /\ ~obs.parsed)
        => (obs.error = "engine-launch" /\ exitCode = 2)

\* the engine exited 1 in update mode and the run ended with exit status 0
C26_Witness ==
  /\ pc = "done" /\ obs.phase1 /\ obs.status1.engine = 1
  /\ obs.phase2 /\ obs.parsed /\ exitCode = 0


\* ------------------------------------------------------ strategy fallback
\* the sitemap attempt met a fetch error or timeout, or an empty sitemap
SitemapFailed(sm) == ~sm.ok \/ sm.sites = <<>>

\* C27: collectURLs tries the sitemap first and the crawl exactly when the
\* sitemap attempt failed (fetch error, timeout or empty result), after it;
\* a result is tagged source = sitemap exactly when the sitemap attempt
\* succeeded and source = crawl otherwise.
C27_CrawlIffSitemapFailed ==
  obs.discovery =>
     LET f == obs.found
     IN  /\ f.attempts # <<>> /\ f.attempts[1] = "sitemap"
         /\ "crawl" \in Range(f.attempts) <=> SitemapFailed(f.sm)
         /\ "crawl" \in Range(f.attempts) => f.attempts = <<"sitemap", "crawl">>
         /\ ~f.raised => /\ f.source = "sitemap" <=> ~SitemapFailed(f.sm)
                         /\ f.source = "crawl" <=> SitemapFailed(f.sm)

\* an empty sitemap, then a crawl that found a page
C27_Witness ==
  /\ obs.discovery /\ ~obs.found.raised
  /\ obs.found.sm = [ok |-> TRUE, sites |-> <<>>]
  /\ obs.found.attempts = <<"sitemap", "crawl">>
  /\ obs.found.source = "crawl" /\ obs.found.urls # <<>>


\* ------------------------------------------------ baselines per project
\* runs of one config file with two viewports, with every --project selection
ProjectArgSets ==
  [ config : {"two"}, test : {""}, reference : {""}, maxUrls : {0},
    project : {"", "desktop", "mobile"}, updateBaseline : BOOLEAN ]

NextProjects ==
  \/ \E a \in ProjectArgSets : Start(a)
  \/ Gate
  \/ LoadCachedUrls
  \/ Discover
  \/ CaptureBaseline
  \/ BaselineObserved
  \/ Compare
  \/ CompareClosed
  \/ Aggregate

SpecProjects == InitUpgrade /\ [][NextProjects]_vars

\* C28: when baseline capture is skipped, every project phase 2 compares has
\* baseline images, and they are images phase 1 captured since the manifest
\* was written, whatever --project selections earlier invocations with the
\* same configuration used.
C28_BaselinePerProject ==
  (pc = "phase2" /\ "update" \notin Range(obs.trace)) =>
     /\ SelectedProjects(config, args.project) \subseteq pngs
     /\ SelectedProjects(config, args.project) \subseteq obs.captured


\* ------------------------------------------------------ the empty URL set
\* C29: the engine is never started on an empty URL set.  An empty list,
\* loaded or discovered, ends the invocation with status 2 before phase 1 and
\* phase 2; a discovered empty list and its manifest are on disk by then, and
\* an invocation without force that finds them for its own configuration
\* ends with status 2 as well, without discovery.
C29_EmptySetAborts ==
  /\ \A i \in DOMAIN obs.engine :
        obs.engine[i].urls.state = "ok" /\ obs.engine[i].urls.urls # <<>>
  /\ (pc \in {"baseline", "phase1", "compare", "phase2", "parse"} \/ obs.coordinator)
        => urls # <<>>
  /\ obs.error = "no-urls"
        => /\ pc = "done" /\ exitCode = 2 /\ urls = <<>>
           /\ obs.engine = <<>> /\ ~obs.phase1 /\ ~obs.phase2
           /\ obs.discovery => EmptySetPersisted(config)
  /\ obs.scenario = "E"
        => /\ pc \in {"gate", "urls", "done"}
           /\ ~obs.discovery /\ obs.discoveryTarget = "" /\ obs.engine = <<>>
           /\ pc = "done" => (exitCode = 2 /\ obs.error = "no-urls")

\* an invocation that found an empty list persisted for its configuration has
\* ended with status 2 without discovery
C29_Witness ==
  /\ obs.scenario = "E" /\ pc = "done" /\ exitCode = 2
  /\ obs.error = "no-urls" /\ ~obs.discovery

====
